---- MODULE Spec2Model ----
(***************************************************************************)
(* Model of src/app.py: the /order-book handler (order_book) and the four  *)
(* functions it calls (download_pdf, ensure_correct_page_count,            *)
(* upload_binary, order_book_with_gelato), with the two fixed working      *)
(* files temp_pdfs/input.pdf and processed_pdfs/gelato_ready.pdf as shared *)
(* state.                                                                  *)
(*                                                                         *)
(* A request body is a JSON object: a function from the field names it     *)
(* carries to their values.  A Python str that the code takes apart        *)
(* (customer_name) is a sequence of one-character strings; every other     *)
(* value is an opaque string.  A PDF is the sequence of its pages.         *)
(***************************************************************************)
EXTENDS Integers, Sequences, FiniteSets, TLC

\* ------------------------------------------------------------- bounds
MaxNameLen == 3
MaxPages == 41

\* ------------------------------------------------------------- constants
TargetPages == 39
HTTP_OK == 200
HTTP_CREATED == 201
HTTP_BAD_REQUEST == 400
HTTP_SERVER_ERROR == 500
PayloadPageCount == 39
PayloadQuantity == 1

required_fields ==
    <<"user_id", "pdf_url", "customer_name", "address", "city", "country",
      "postal_code", "email">>

RequiredSet == {required_fields[i] : i \in 1..Len(required_fields)}

\* ------------------------------------------------------------- validation
\* The loop of order_book over required_fields: the index of the first field
\* that is not a key of data, 0 when the loop runs to its end.
RECURSIVE first_missing_from(_, _)
first_missing_from(data, i) ==
    IF i > Len(required_fields) THEN 0
    ELSE IF required_fields[i] \notin DOMAIN data THEN i
    ELSE first_missing_from(data, i + 1)

\* Variant: the loop walks required_fields from its end.
first_missing_reversed(data) ==
    LET miss == {i \in 1..Len(required_fields) : required_fields[i] \notin DOMAIN data}
    IN  IF miss = {} THEN 0 ELSE CHOOSE i \in miss : \A j \in miss : j <= i

first_missing(data) == first_missing_from(data, 1)

\* ------------------------------------------------------------- str.split()
Whitespace == {" "}
NameChars == {"a", "b", " "}

\* str.split() with no argument: the maximal runs of non-whitespace characters.
RECURSIVE split_from(_, _, _, _)
split_from(s, i, cur, acc) ==
    IF i > Len(s)
    THEN IF cur = <<>> THEN acc ELSE Append(acc, cur)
    ELSE IF s[i] \in Whitespace
         THEN split_from(s, i + 1, <<>>, IF cur = <<>> THEN acc ELSE Append(acc, cur))
         ELSE split_from(s, i + 1, Append(cur, s[i]), acc)

split(s) == split_from(s, 1, <<>>, <<>>)

\* Variant: lastName is split()[1] where there is one.
shipping_names_second_token(name) ==
    LET t == split(name)
    IN  IF t = <<>>
        THEN [raised |-> TRUE, firstName |-> <<>>, lastName |-> <<>>]
        ELSE [raised |-> FALSE, firstName |-> t[1],
              lastName |-> IF Len(t) >= 2 THEN t[2] ELSE <<>>]

\* The two subscripts of lines 103-104: split()[0] and split()[-1].  Either
\* raises IndexError when the name has no token.
shipping_names(name) ==
    LET t == split(name)
    IN  IF t = <<>>
        THEN [raised |-> TRUE, firstName |-> <<>>, lastName |-> <<>>]
        ELSE [raised |-> FALSE, firstName |-> t[1], lastName |-> t[Len(t)]]

\* ------------------------------------------------------------- documents
\* A file: absent, or bytes that are a PDF (ok) of some pages, or bytes that
\* fitz cannot open.
NoFile == [exists |-> FALSE, ok |-> FALSE, pages |-> <<>>]
NotPdf == [exists |-> TRUE, ok |-> FALSE, pages |-> <<>>]
Doc(seed, n) == [exists |-> TRUE, ok |-> TRUE, pages |-> [i \in 1..n |-> <<seed, i>>]]

\* fitz.open() without arguments: a new PDF with no page.
fitz_open_new == [exists |-> TRUE, ok |-> TRUE, pages |-> <<>>]

\* doc.insert_pdf(src): the pages of src are appended to doc.
insert_pdf(doc, src) == [doc EXCEPT !.pages = @ \o src.pages]

\* The while loop of lines 59-61: page_count is a local counter; the document
\* is never asked for its length again.
RECURSIVE pad(_, _)
pad(doc, page_count) ==
    IF page_count < TargetPages
    THEN pad(insert_pdf(doc, fitz_open_new), page_count + 1)
    ELSE [doc |-> doc, page_count |-> page_count]

\* What the library does in a run: "ok", or insert_pdf raises on the page-less
\* source ("insert_raises"), or doc.save raises ("save_raises").
LibOutcomes == {"ok", "insert_raises", "save_raises"}

NoneCount == -1

\* Variant: the loop runs while page_count <= 39.
ensure_correct_page_count_off_by_one(src, lib) ==
    IF ~src.exists \/ ~src.ok \/ lib = "save_raises"
       \/ (lib = "insert_raises" /\ Len(src.pages) <= TargetPages)
    THEN [path |-> FALSE, page_count |-> NoneCount, saved |-> FALSE, out |-> NoFile]
    ELSE [path |-> TRUE,
          page_count |-> IF Len(src.pages) <= TargetPages THEN TargetPages + 1
                         ELSE Len(src.pages),
          saved |-> TRUE, out |-> src]

\* ensure_correct_page_count(pdf_path, output_path): path is FALSE for None,
\* saved says whether output_path was written and out is what was written.
ensure_correct_page_count(src, lib) ==
    IF ~src.exists \/ ~src.ok \/ lib = "save_raises"
       \/ (lib = "insert_raises" /\ Len(src.pages) < TargetPages)
    THEN [path |-> FALSE, page_count |-> NoneCount, saved |-> FALSE, out |-> NoFile]
    ELSE LET p == pad(src, Len(src.pages))
         IN  [path |-> TRUE, page_count |-> p.page_count, saved |-> TRUE, out |-> p.doc]

\* ------------------------------------------------------------- publisher
S3Base == "https://mock-s3-bucket.com/"

s3_pdf_key(data) == <<data["user_id"], "/pdf/gelato_ready.pdf">>

\* Variant: the key is left out of the URL.
upload_binary_fixed_url(file_path, s3_key) == <<S3Base, "pdf/gelato_ready.pdf">>

\* Lines 75-79: nothing is transferred; the URL is the base joined with the key.
upload_binary(file_path, s3_key) == <<S3Base>> \o s3_key

\* ------------------------------------------------------------- fetcher
\* A pdf_url value: what the remote end serves for it.
Url(kind, seed, n) == [kind |-> kind, seed |-> seed, n |-> n]
UrlGone == Url("gone", 0, 0)
UrlDown == Url("down", 0, 0)
UrlNotPdf == Url("notpdf", 0, 0)
UrlPdf(seed, n) == Url("pdf", seed, n)

\* requests.get(url, stream=True): the responses the call can end in.
requests_get(url) ==
    CASE url.kind = "pdf" ->
           {[kind |-> "response", status_code |-> HTTP_OK, content |-> Doc(url.seed, url.n)]}
      [] url.kind = "notpdf" ->
           {[kind |-> "response", status_code |-> HTTP_OK, content |-> NotPdf]}
      [] url.kind = "gone" ->
           {[kind |-> "response", status_code |-> 404, content |-> NotPdf]}
      [] OTHER ->
           {[kind |-> "exception", status_code |-> 0, content |-> NoFile]}

\* Variant: the response body is not written to input.pdf.
download_pdf_keeps_old(got) ==
    IF got.kind = "response" /\ got.status_code = HTTP_OK
    THEN [path |-> TRUE, written |-> FALSE, content |-> got.content]
    ELSE [path |-> FALSE, written |-> FALSE, content |-> NoFile]

\* Variant: the status code is not looked at.
download_pdf_any_status(got) ==
    IF got.kind = "response"
    THEN [path |-> TRUE, written |-> TRUE, content |-> got.content]
    ELSE [path |-> FALSE, written |-> FALSE, content |-> NoFile]

\* download_pdf, given the outcome of requests.get: path is FALSE for None,
\* written says whether temp_pdfs/input.pdf was overwritten with content.
download_pdf(got) ==
    IF got.kind = "response" /\ got.status_code = HTTP_OK
    THEN [path |-> TRUE, written |-> TRUE, content |-> got.content]
    ELSE [path |-> FALSE, written |-> FALSE, content |-> NoFile]

\* ------------------------------------------------------------- order submitter
\* What requests.post(..., timeout=30) can end in: a response with a status
\* and a JSON body that has an "id" or not, or an exception.
ProviderResponse(kind, status, has_id, id) ==
    [kind |-> kind, status_code |-> status, has_id |-> has_id, id |-> id]

ProviderResponses ==
    { ProviderResponse("response", HTTP_CREATED, TRUE, "ord1"),
      ProviderResponse("response", HTTP_CREATED, TRUE, "ord2"),
      ProviderResponse("response", HTTP_CREATED, FALSE, ""),
      ProviderResponse("response", HTTP_OK, TRUE, "ord1"),
      ProviderResponse("response", HTTP_SERVER_ERROR, FALSE, ""),
      ProviderResponse("exception", 0, FALSE, "") }

NoProvider == ProviderResponse("none", 0, FALSE, "")

NoOrder == [some |-> FALSE, id |-> ""]

\* The payload of lines 86-112, without the three uuid4 reference ids (fresh
\* random tokens that nothing reads back).
gelato_payload(pdf_url, customer_data, names) ==
    [orderType |-> "order", currency |-> "USD",
     files |-> <<[type |-> "default", url |-> pdf_url]>>,
     quantity |-> PayloadQuantity, pageCount |-> PayloadPageCount,
     shipmentMethodUid |-> "standard",
     companyName |-> customer_data["customer_name"],
     firstName |-> names.firstName, lastName |-> names.lastName,
     addressLine1 |-> customer_data["address"], city |-> customer_data["city"],
     state |-> "", postCode |-> customer_data["postal_code"],
     country |-> customer_data["country"], email |-> customer_data["email"]]

\* Variant: a 200 counts as created and a failed POST is sent again.
order_book_with_gelato_retrying(pdf_url, customer_data, presp) ==
    LET names == shipping_names(customer_data["customer_name"])
        payload == gelato_payload(pdf_url, customer_data, names)
    IN  IF names.raised
        THEN [raised |-> TRUE, posted |-> <<>>, order |-> NoOrder]
        ELSE IF presp.kind = "response" /\ presp.status_code \in {HTTP_OK, HTTP_CREATED}
                /\ presp.has_id
             THEN [raised |-> FALSE, posted |-> <<payload>>,
                   order |-> [some |-> TRUE, id |-> presp.id]]
             ELSE [raised |-> FALSE, posted |-> <<payload, payload>>, order |-> NoOrder]

\* order_book_with_gelato(pdf_url, customer_data), given the outcome presp of
\* its requests.post: raised when building the payload raised (outside the
\* try), posted the payloads POSTed, order the return value (some = FALSE for
\* None).
order_book_with_gelato(pdf_url, customer_data, presp) ==
    LET names == shipping_names(customer_data["customer_name"])
        payload == gelato_payload(pdf_url, customer_data, names)
    IN  IF names.raised
        THEN [raised |-> TRUE, posted |-> <<>>, order |-> NoOrder]
        ELSE IF presp.kind = "response" /\ presp.status_code = HTTP_CREATED
                /\ presp.has_id
             THEN [raised |-> FALSE, posted |-> <<payload>>,
                   order |-> [some |-> TRUE, id |-> presp.id]]
             ELSE [raised |-> FALSE, posted |-> <<payload>>, order |-> NoOrder]

\* ------------------------------------------------------------- state
VARIABLES
    req,        \* per request slot: the handler's position, locals and response
    tempFile,   \* the file temp_pdfs/input.pdf
    outFile     \* the file processed_pdfs/gelato_ready.pdf

vars == <<req, tempFile, outFile>>

\* Two request threads of the server.
Slots == {"A", "B"}

NoResp ==
    [kind |-> "none", status |-> 0, error |-> <<>>, message |-> "",
     order_id |-> "", gelato_pdf_url |-> <<>>]

\* jsonify({"error": msg}), status
ErrorResp(status, msg) ==
    [kind |-> "json", status |-> status, error |-> msg, message |-> "",
     order_id |-> "", gelato_pdf_url |-> <<>>]

\* An exception that leaves order_book: the framework's own 500 page, not one
\* of the handler's JSON errors.
UnhandledResp ==
    [kind |-> "unhandled", status |-> HTTP_SERVER_ERROR, error |-> <<>>, message |-> "",
     order_id |-> "", gelato_pdf_url |-> <<>>]

NoNorm == [path |-> FALSE, page_count |-> NoneCount, saved |-> FALSE, out |-> NoFile]

\* A slot with no request on it.  calls lists the functions the handler has
\* invoked for the request, each with whether it succeeded; fetched is what
\* this request's download wrote, opened what its normalizer read, provider
\* how its requests.post ended; overlapped records that another request was in
\* progress at some time during this one.
IdleReq ==
    [pc |-> "idle", data |-> <<>>, calls |-> <<>>, fetched |-> NoFile,
     opened |-> NoFile, norm |-> NoNorm, gelato_pdf_url |-> <<>>,
     posted |-> <<>>, provider |-> NoProvider, resp |-> NoResp, overlapped |-> FALSE]

Active(r) == req[r].pc \notin {"idle", "done"}

Called(fn, ok) == [fn |-> fn, ok |-> ok]

Respond(r, rec, resp) == [rec EXCEPT !.pc = "done", !.resp = resp]

\* ------------------------------------------------------------- order_book
\* A request arrives on a free slot (line 130).
DoReceive(r, body) ==
    /\ req[r].pc = "idle"
    /\ LET busy == {q \in Slots \ {r} : Active(q)}
       IN  req' = [q \in Slots |->
                     IF q = r
                     THEN [IdleReq EXCEPT !.pc = "validate", !.data = body,
                                          !.overlapped = (busy # {})]
                     ELSE IF q \in busy THEN [req[q] EXCEPT !.overlapped = TRUE]
                     ELSE req[q]]
    /\ UNCHANGED <<tempFile, outFile>>

\* Lines 134-137.
DoValidate(r) ==
    /\ req[r].pc = "validate"
    /\ LET m == first_missing(req[r].data)
       IN  req' = [req EXCEPT ![r] =
                     IF m # 0
                     THEN Respond(r, @, ErrorResp(HTTP_BAD_REQUEST,
                                                  <<"Missing field: ", required_fields[m]>>))
                     ELSE [@ EXCEPT !.pc = "fetch"]]
    /\ UNCHANGED <<tempFile, outFile>>

\* Lines 140-142.
DoFetch(r) ==
    /\ req[r].pc = "fetch"
    /\ \E got \in requests_get(req[r].data["pdf_url"]) :
         LET res == download_pdf(got)
             rec == [req[r] EXCEPT !.calls = Append(@, Called("download_pdf", res.path))]
         IN  /\ tempFile' = IF res.written THEN res.content ELSE tempFile
             /\ req' = [req EXCEPT ![r] =
                          IF ~res.path
                          THEN Respond(r, rec, ErrorResp(HTTP_SERVER_ERROR,
                                                         <<"Failed to download PDF">>))
                          ELSE [rec EXCEPT !.pc = "normalize", !.fetched = res.content]]
    /\ UNCHANGED outFile

\* Variant: the returned count is not compared with 39.
normalized_ok_path_only(res) == res.path

\* Line 146, negated: the handler goes on only with a path and a count of 39.
normalized_ok(res) == res.path /\ res.page_count = TargetPages

\* Lines 145-147.
DoNormalize(r) ==
    /\ req[r].pc = "normalize"
    /\ \E lib \in LibOutcomes :
         LET res == ensure_correct_page_count(tempFile, lib)
             good == normalized_ok(res)
             rec == [req[r] EXCEPT
                       !.calls = Append(@, Called("ensure_correct_page_count", good)),
                       !.opened = tempFile, !.norm = res]
         IN  /\ outFile' = IF res.saved THEN res.out ELSE outFile
             /\ req' = [req EXCEPT ![r] =
                          IF ~good
                          THEN Respond(r, rec, ErrorResp(HTTP_SERVER_ERROR,
                                   <<"Failed to generate a correctly formatted PDF">>))
                          ELSE [rec EXCEPT !.pc = "publish"]]
    /\ UNCHANGED tempFile

\* Lines 150-155: the stub cannot raise, so the except branch is never taken.
DoPublish(r) ==
    /\ req[r].pc = "publish"
    /\ req' = [req EXCEPT ![r] =
                 [@ EXCEPT !.calls = Append(@, Called("upload_binary", TRUE)),
                           !.gelato_pdf_url = upload_binary(req[r].norm.path,
                                                            s3_pdf_key(req[r].data)),
                           !.pc = "submit"]]
    /\ UNCHANGED <<tempFile, outFile>>

\* Lines 158-166.
DoSubmit(r) ==
    /\ req[r].pc = "submit"
    /\ \E presp \in ProviderResponses :
         LET res == order_book_with_gelato(req[r].gelato_pdf_url, req[r].data, presp)
             rec == [req[r] EXCEPT
                       !.calls = Append(@, Called("order_book_with_gelato", res.order.some)),
                       !.posted = res.posted,
                       !.provider = IF res.posted = <<>> THEN NoProvider ELSE presp]
         IN  req' = [req EXCEPT ![r] =
                       IF res.raised THEN Respond(r, rec, UnhandledResp)
                       ELSE IF ~res.order.some
                       THEN Respond(r, rec, ErrorResp(HTTP_SERVER_ERROR,
                                                      <<"Failed to place book order">>))
                       ELSE Respond(r, rec,
                              [kind |-> "json", status |-> HTTP_OK, error |-> <<>>,
                               message |-> "Book order created successfully!",
                               order_id |-> res.order.id,
                               gelato_pdf_url |-> req[r].gelato_pdf_url])]
    /\ UNCHANGED <<tempFile, outFile>>

\* The handler has returned its response: the thread ends and its locals go.
DoReturn(r) ==
    /\ req[r].pc = "done"
    /\ req' = [req EXCEPT ![r] = IdleReq]
    /\ UNCHANGED <<tempFile, outFile>>

\* ------------------------------------------------------------- inputs
UserIds == {"u1", "u2"}
Seeds == {1, 2}

\* Every customer_name of at most MaxNameLen characters.
AllNames == UNION {[1..n -> NameChars] : n \in 0..MaxNameLen}

NameSamples == {<<>>, <<" ">>, <<"a">>, <<"a", " ", "b">>}

SampleUrls ==
    {UrlPdf(1, 1), UrlPdf(1, TargetPages), UrlPdf(1, TargetPages + 1),
     UrlNotPdf, UrlGone, UrlDown}

\* The JSON object with the keys P.
make_body(P, uid, url, name) ==
    [f \in P |-> CASE f = "user_id" -> uid
                   [] f = "pdf_url" -> url
                   [] f = "customer_name" -> name
                   [] OTHER -> "x"]

Init ==
    /\ req = [q \in Slots |-> IdleReq]
    /\ tempFile = NoFile
    /\ outFile = NoFile

\* ------------------------------------------------------------- one request at a time
\* Validation reads the keys of the body only: the bodies are every set of
\* keys with fixed values, and the complete body with every sample value.
ReceivePartial ==
    \E P \in SUBSET RequiredSet :
        DoReceive("A", make_body(P, "u1", UrlPdf(1, TargetPages), <<"a", " ", "b">>))

Receive ==
    \E uid \in UserIds, url \in SampleUrls, name \in NameSamples :
        DoReceive("A", make_body(RequiredSet, uid, url, name))

Validate == DoValidate("A")
Fetch == DoFetch("A")
Normalize == DoNormalize("A")
Publish == DoPublish("A")
Submit == DoSubmit("A")
Return == DoReturn("A")

Next == ReceivePartial \/ Receive \/ Validate \/ Fetch \/ Normalize \/ Publish \/ Submit \/ Return

Spec == Init /\ [][Next]_vars

\* ------------------------------------------------------------- every customer name
ReceiveNamed ==
    \E name \in AllNames :
        DoReceive("A", make_body(RequiredSet, "u1", UrlPdf(1, TargetPages), name))

NextNames == ReceiveNamed \/ Validate \/ Fetch \/ Normalize \/ Publish \/ Submit \/ Return

SpecNames == Init /\ [][NextNames]_vars

\* ------------------------------------------------------------- threaded server
\* app.run serves each request on its own thread: the steps of two requests
\* interleave at their I/O calls.
ThreadUrls == {UrlPdf(1, TargetPages), UrlPdf(2, TargetPages), UrlGone}

ReceiveT ==
    \E r \in Slots, url \in ThreadUrls :
        DoReceive(r, make_body(RequiredSet, "u1", url, <<"a", " ", "b">>))

ValidateT == \E r \in Slots : DoValidate(r)
FetchT == \E r \in Slots : DoFetch(r)
NormalizeT == \E r \in Slots : DoNormalize(r)
PublishT == \E r \in Slots : DoPublish(r)
SubmitT == \E r \in Slots : DoSubmit(r)
ReturnT == \E r \in Slots : DoReturn(r)

NextThreaded ==
    ReceiveT \/ ValidateT \/ FetchT \/ NormalizeT \/ PublishT \/ SubmitT \/ ReturnT

SpecThreaded == Init /\ [][NextThreaded]_vars

\* ------------------------------------------------------------- the normalizer alone
\* ensure_correct_page_count applied to a file of every page count up to
\* MaxPages (slot A keeps the call), then to the file it wrote (slot B).
InitNorm ==
    /\ req = [q \in Slots |-> IdleReq]
    /\ outFile = NoFile
    /\ tempFile \in {Doc(s, n) : s \in Seeds, n \in 1..MaxPages} \cup {NotPdf}

NormalizeOnce ==
    /\ req["A"].pc = "idle"
    /\ \E lib \in LibOutcomes :
         LET res == ensure_correct_page_count(tempFile, lib)
         IN  /\ req' = [req EXCEPT !["A"] =
                          [@ EXCEPT !.pc = "normalized", !.opened = tempFile, !.norm = res]]
             /\ outFile' = IF res.saved THEN res.out ELSE outFile
    /\ UNCHANGED tempFile

NormalizeAgain ==
    /\ req["A"].pc = "normalized"
    /\ req["A"].norm.saved
    /\ req["B"].pc = "idle"
    /\ \E lib \in LibOutcomes :
         LET res == ensure_correct_page_count(outFile, lib)
         IN  /\ req' = [req EXCEPT !["B"] =
                          [@ EXCEPT !.pc = "normalized", !.opened = outFile, !.norm = res]]
             /\ outFile' = IF res.saved THEN res.out ELSE outFile
    /\ UNCHANGED tempFile

NextNorm == NormalizeOnce \/ NormalizeAgain

SpecNorm == InitNorm /\ [][NextNorm]_vars

\* ------------------------------------------------------------- properties
Fns(r) == [i \in 1..Len(req[r].calls) |-> req[r].calls[i].fn]

StepOrder ==
    <<"download_pdf", "ensure_correct_page_count", "upload_binary", "order_book_with_gelato">>

MissingIdx(data) ==
    {i \in 1..Len(required_fields) : required_fields[i] \notin DOMAIN data}

\* The missing field that comes first in the fixed order.
FirstMissingField(data) ==
    required_fields[CHOOSE i \in MissingIdx(data) : \A j \in MissingIdx(data) : i <= j]

Validated(r) == req[r].pc \notin {"idle", "validate"}

\* C1: a body that lacks a required field is answered 400 with an error that
\* names the first missing field of the fixed order, and no fetch, normalize,
\* publish or submit step was invoked for it.
C1_MissingFieldRejected ==
    \A r \in Slots :
        (Validated(r) /\ MissingIdx(req[r].data) # {}) =>
            /\ req[r].pc = "done"
            /\ req[r].resp = ErrorResp(HTTP_BAD_REQUEST,
                                       <<"Missing field: ", FirstMissingField(req[r].data)>>)
            /\ req[r].calls = <<>>
            /\ req[r].posted = <<>>

C1_Witness ==
    \E r \in Slots :
        /\ req[r].pc = "done"
        /\ Cardinality(MissingIdx(req[r].data)) >= 2
        /\ "user_id" \in DOMAIN req[r].data
        /\ req[r].resp.status = HTTP_BAD_REQUEST
        /\ req[r].resp.error = <<"Missing field: ", "city">>

\* C2: when a source of at most 39 pages opens and saves without error, the
\* file written has exactly 39 pages and the returned count is its page count.
C2_PaddedTo39 ==
    \A r \in Slots :
        (req[r].norm.saved /\ Len(req[r].opened.pages) <= TargetPages) =>
            /\ Len(req[r].norm.out.pages) = TargetPages
            /\ req[r].norm.page_count = Len(req[r].norm.out.pages)

\* C3: a source of more than 39 pages is written unchanged with its own count
\* returned, the request is answered 500 "Failed to generate a correctly
\* formatted PDF" with no publish and no submit; and a request is at the
\* publish or submit step only with a returned count of 39.
C3_OverLongRejected ==
    \A r \in Slots :
        /\ (Len(req[r].opened.pages) > TargetPages /\ Len(req[r].calls) >= 2) =>
              /\ req[r].norm.path =>
                    /\ req[r].norm.out = req[r].opened
                    /\ req[r].norm.page_count = Len(req[r].opened.pages)
              /\ req[r].pc = "done"
              /\ req[r].resp = ErrorResp(HTTP_SERVER_ERROR,
                                 <<"Failed to generate a correctly formatted PDF">>)
              /\ Len(req[r].calls) = 2
              /\ req[r].posted = <<>>
        /\ (req[r].pc \in {"publish", "submit"} \/ Len(req[r].calls) >= 3) =>
              /\ req[r].norm.path
              /\ req[r].norm.page_count = TargetPages

C3_Witness ==
    \E r \in Slots :
        /\ req[r].pc = "done"
        /\ req[r].norm.path
        /\ req[r].norm.page_count = TargetPages + 1
        /\ Len(req[r].norm.out.pages) = TargetPages + 1
        /\ req[r].resp.status = HTTP_SERVER_ERROR

\* C4: the steps of a request run in the order fetch, normalize, publish,
\* submit, each only after validation and every earlier step succeeded; a
\* fetch that fails (non-200 status or transport error) is answered 500
\* "Failed to download PDF" with no later step; and once a request has its
\* response, nothing more happens for it.
FetchFails(r) ==
    /\ RequiredSet \subseteq DOMAIN req[r].data
    /\ req[r].data["pdf_url"].kind \in {"gone", "down"}

C4_State ==
    \A r \in Slots :
        /\ Len(req[r].calls) <= Len(StepOrder)
        /\ Fns(r) = SubSeq(StepOrder, 1, Len(req[r].calls))
        /\ req[r].calls # <<>> => MissingIdx(req[r].data) = {}
        /\ \A i \in 1..(Len(req[r].calls) - 1) : req[r].calls[i].ok
        /\ (req[r].calls # <<>> /\ ~req[r].calls[Len(req[r].calls)].ok) => req[r].pc = "done"
        /\ (FetchFails(r) /\ req[r].pc \notin {"idle", "validate", "fetch"}) =>
              /\ req[r].pc = "done"
              /\ req[r].resp = ErrorResp(HTTP_SERVER_ERROR, <<"Failed to download PDF">>)
              /\ Fns(r) = <<"download_pdf">>
              /\ req[r].posted = <<>>

C4_Absorbing ==
    \A r \in Slots :
        req[r].pc = "done" => (req'[r] = req[r] \/ req'[r] = IdleReq)

C4_StepOrder == []C4_State /\ [][C4_Absorbing]_vars

C4_Witness ==
    \E r \in Slots :
        /\ req[r].pc = "done"
        /\ FetchFails(r)
        /\ req[r].data["pdf_url"].kind = "gone"
        /\ req[r].resp.status = HTTP_SERVER_ERROR

\* C5: a 200 response is returned only when validation, fetch, normalization
\* with a count of 39, publish and submit all succeeded; it carries the order
\* id the provider returned and the URL made of the fixed base and the key
\* <user_id>/pdf/gelato_ready.pdf, which is the file URL of the order payload.
C5_SuccessOnlyAfterAllSteps ==
    \A r \in Slots :
        req[r].resp.status = HTTP_OK =>
            /\ req[r].pc = "done"
            /\ MissingIdx(req[r].data) = {}
            /\ Fns(r) = StepOrder
            /\ \A i \in 1..Len(req[r].calls) : req[r].calls[i].ok
            /\ req[r].fetched.exists
            /\ req[r].norm.page_count = TargetPages
            /\ Len(req[r].posted) = 1
            /\ req[r].provider.kind = "response"
            /\ req[r].provider.status_code = HTTP_CREATED
            /\ req[r].resp.order_id = req[r].provider.id
            /\ req[r].resp.gelato_pdf_url =
                   <<S3Base, req[r].data["user_id"], "/pdf/gelato_ready.pdf">>
            /\ req[r].posted[1].files[1].url = req[r].resp.gelato_pdf_url

C5_Witness ==
    \E r \in Slots :
        /\ req[r].resp.status = HTTP_OK
        /\ req[r].resp.order_id = "ord2"
        /\ req[r].data["user_id"] = "u2"

\* The error message of each step that can fail.
StepError(fn) ==
    CASE fn = "download_pdf" -> <<"Failed to download PDF">>
      [] fn = "ensure_correct_page_count" -> <<"Failed to generate a correctly formatted PDF">>
      [] fn = "upload_binary" -> <<"Failed to upload PDF">>
      [] OTHER -> <<"Failed to place book order">>

\* C6: a request that does not succeed ends in one JSON error response: 400
\* exactly for a validation failure, 500 with the failing step's message for
\* any later failure; no failure leaves the handler unhandled.
C6_EveryFailureMapped ==
    \A r \in Slots :
        (req[r].pc = "done" /\ req[r].resp.status # HTTP_OK) =>
            /\ req[r].resp.kind = "json"
            /\ req[r].resp.status \in {HTTP_BAD_REQUEST, HTTP_SERVER_ERROR}
            /\ req[r].resp.status = HTTP_BAD_REQUEST <=> MissingIdx(req[r].data) # {}
            /\ req[r].resp.status = HTTP_SERVER_ERROR =>
                  /\ req[r].calls # <<>>
                  /\ req[r].resp.error = StepError(req[r].calls[Len(req[r].calls)].fn)

\* The tokens of a name, from its characters alone.
NonSpace(s) == {i \in 1..Len(s) : s[i] \notin Whitespace}
TokenStarts(s) == {i \in NonSpace(s) : i = 1 \/ (i - 1) \notin NonSpace(s)}
TokenEnd(s, i) == CHOOSE j \in i..Len(s) : (i..j) \subseteq NonSpace(s) /\ (j + 1) \notin NonSpace(s)
Token(s, i) == SubSeq(s, i, TokenEnd(s, i))
FirstStart(s) == CHOOSE i \in TokenStarts(s) : \A j \in TokenStarts(s) : i <= j
LastStart(s) == CHOOSE i \in TokenStarts(s) : \A j \in TokenStarts(s) : j <= i

AtSubmitEnd(r) == req[r].pc = "done" /\ Len(req[r].calls) = Len(StepOrder)

\* C7: firstName is the first whitespace-separated token of customer_name and
\* lastName the last; a name of exactly one token does not crash the call and
\* gives firstName and lastName both equal to that token.
C7_FirstAndLastToken ==
    \A r \in Slots :
        LET name == req[r].data["customer_name"]
        IN  (AtSubmitEnd(r) /\ TokenStarts(name) # {}) =>
                /\ req[r].resp.kind = "json"
                /\ Len(req[r].posted) = 1
                /\ req[r].posted[1].firstName = Token(name, FirstStart(name))
                /\ req[r].posted[1].lastName = Token(name, LastStart(name))
                /\ Cardinality(TokenStarts(name)) = 1 =>
                      /\ req[r].posted[1].firstName = req[r].posted[1].lastName
                      /\ req[r].posted[1].firstName = Token(name, FirstStart(name))

C7_Witness ==
    \E r \in Slots :
        /\ AtSubmitEnd(r)
        /\ req[r].data["customer_name"] = <<" ", "a", " ">>
        /\ req[r].posted # <<>>
        /\ req[r].posted[1].firstName = <<"a">>
        /\ req[r].posted[1].lastName = <<"a">>

\* C8: normalizing a file of exactly 39 pages writes a file of 39 pages with
\* the same pages and returns 39, and normalizing what was written gives the
\* same result again.
C8_IdempotentAt39 ==
    /\ \A r \in Slots :
          (req[r].pc = "normalized" /\ req[r].norm.saved
             /\ req[r].opened.ok /\ Len(req[r].opened.pages) = TargetPages) =>
                /\ req[r].norm.path
                /\ req[r].norm.page_count = TargetPages
                /\ req[r].norm.out = req[r].opened
    /\ (req["B"].pc = "normalized" /\ req["B"].norm.saved
          /\ Len(req["A"].opened.pages) = TargetPages) =>
             /\ req["B"].opened = req["A"].norm.out
             /\ req["B"].norm = req["A"].norm

C8_Witness ==
    /\ req["B"].pc = "normalized"
    /\ req["B"].norm.saved
    /\ Len(req["A"].opened.pages) = TargetPages
    /\ Len(req["B"].norm.out.pages) = TargetPages

\* C9: a request POSTs its order at most once; the POST counts as a success
\* only with status 201 and a parsed order id, and on any other status,
\* transport error or parsing error the request is answered 500 "Failed to
\* place book order" with no second POST.
C9_SubmittedOnce ==
    \A r \in Slots :
        /\ Len(req[r].posted) <= 1
        /\ req[r].posted # <<>> =>
              /\ req[r].pc = "done"
              /\ req[r].provider.kind # "none"
              /\ IF /\ req[r].provider.kind = "response"
                    /\ req[r].provider.status_code = HTTP_CREATED
                    /\ req[r].provider.has_id
                 THEN /\ req[r].resp.status = HTTP_OK
                      /\ req[r].resp.order_id = req[r].provider.id
                 ELSE req[r].resp = ErrorResp(HTTP_SERVER_ERROR,
                                              <<"Failed to place book order">>)

C9_Witness ==
    \E r \in Slots :
        /\ Len(req[r].posted) = 1
        /\ req[r].provider.kind = "response"
        /\ req[r].provider.status_code = HTTP_OK
        /\ req[r].resp.status = HTTP_SERVER_ERROR

NormalizerRan(r) == Len(req[r].calls) >= 2

\* C10: a request that no other request overlapped has its normalizer read
\* the file its own fetch wrote; two overlapping requests can reach a state
\* where a request's normalizer has read the file the other one fetched.
C10_SerialReadsOwnFetch ==
    \A r \in Slots :
        (NormalizerRan(r) /\ ~req[r].overlapped) => req[r].opened = req[r].fetched

C10_Race ==
    \E r \in Slots, q \in Slots :
        /\ r # q
        /\ NormalizerRan(r)
        /\ req[r].overlapped
        /\ req[r].opened # req[r].fetched
        /\ req[r].opened = req[q].fetched
====
